---- MODULE Spec2Model ----
(***************************************************************************)
(* Model of the batch job processor of the Clueso Node layer               *)
(* (Clueso_Node_layer/src/services/batch-service.js).                      *)
(*                                                                         *)
(* JavaScript runs each handler to its next `await`; the EventEmitter       *)
(* calls subscribers synchronously inside emit().  A step of the model is  *)
(* therefore the code between two consecutive points at which foreign code *)
(* can run: an `await` (processor call, backoff sleep) or an emit().       *)
(* Between two steps any caller (an HTTP handler, a subscriber, the        *)
(* processor itself) may call createBatch, processBatch, cancelBatch or    *)
(* deleteBatch.                                                            *)
(*                                                                         *)
(* Batch objects live in `heap` (a loop keeps its reference to the batch   *)
(* after the batch was deleted from the Map); `batchJobs` is the Map from  *)
(* batch id to the object stored under it.                                 *)
(***************************************************************************)
EXTENDS Integers, Sequences, FiniteSets, TLC

\* ---------------------------------------------------------------- bounds
MaxBatches == 2          \* createBatch calls in one behaviour
MaxLoad == 6             \* load of one behaviour: every createBatch call
                         \* weighs 2 plus the number of items it submits
                         \* (one batch of up to 4 items, or two batches
                         \* with up to 2 items between them)
MaxCancels == 1          \* accepted cancelBatch calls in a run
MaxSmallLoad == 4        \* load of one behaviour of CallSpec and InputSpec
MaxCallCancels == 2      \* accepted cancelBatch calls in a run of
                         \* CallSpec

\* ------------------------------------------------------- program constants
PENDING == "pending"
PROCESSING == "processing"
COMPLETED == "completed"
FAILED == "failed"
CANCELLED == "cancelled"
PARTIAL == "partial"
BatchState == {PENDING, PROCESSING, COMPLETED, FAILED, CANCELLED, PARTIAL}

maxRetries == 3
\* the largest item list the batch route lets through (validator.js)
maxItems == 50
\* listBatches, line 315: the default limit
defaultLimit == 50

\* ------------------------------------------------------------ input sets
NULL == "null"
ItemPool == <<"A", "B", "C">>
\* the item list of n ids submitted to createBatch
ItemList(n) == [i \in 1..n |-> ItemPool[((i - 1) % Len(ItemPool)) + 1]]
\* what the caller-supplied processor can resolve with / throw
Results == {"ok"}
\* ... including a processor that resolves with null / undefined
AllResults == Results \cup {NULL}
\* the n-th invocation for an item throws an error with its own message
ErrorPool == <<"e1", "e2", "e3">>
ErrorMessages(n) == {ErrorPool[((n - 1) % Len(ErrorPool)) + 1]}
\* ... including an error without a message (new Error())
AllErrorMessages(n) == ErrorMessages(n) \cup {""}
\* the processOptions of createBatch: no options (retries 0 stands for
\* undefined), or options.retries = r
NoOptions == [retries |-> 0]
AllOptions == {NoOptions, [retries |-> 1], [retries |-> 5]}
\* ids generateBatchId can return
BatchIds == 1..MaxBatches

VARIABLES
    heap,            \* Seq of batch objects, in creation order
    batchJobs,       \* the Map: batch id -> index into heap, 0 if no entry
    mapKeys,         \* the keys of the Map in its iteration (insertion) order
    loop,            \* per batch object: position of its processBatch call
    batchEvents,     \* per batch object: events emitted by its processBatch
    cancelledEvents, \* per batch object: number of 'cancelled' events emitted
    calls,           \* per batch object, per item: processor invocations
    outstanding,     \* per batch object: processor invocations not yet settled
    cancelAt,        \* per batch object: item index in flight at the first
                     \* cancelBatch of the processing batch, -1 if none
    ret              \* CallSpec only: the call made by the last step and what
                     \* it returned

\* everything but ret
store == <<heap, batchJobs, mapKeys, loop, batchEvents, cancelledEvents, calls,
           outstanding, cancelAt>>
vars == <<store, ret>>

Refs == 1..Len(heap)
Event(type, itemIndex, state) ==
    [type |-> type, itemIndex |-> itemIndex, state |-> state]

\* ------------------------------------------------------- pure operators
\* createBatch with item indexes counted from 1
createBatchOneBased(batchId, items, processOptions, now) ==
    [ id |-> batchId,
      state |-> PENDING,
      createdAt |-> now,
      options |-> processOptions,
      startedAt |-> NULL,
      completedAt |-> NULL,
      items |-> [k \in 1..Len(items) |->
                    [ index |-> k,
                      id |-> items[k],
                      state |-> PENDING,
                      result |-> NULL,
                      error |-> NULL,
                      attempts |-> 0 ]],
      progress |-> [ total |-> Len(items),
                     completed |-> 0,
                     failed |-> 0,
                     pending |-> Len(items),
                     processing |-> 0,
                     percentComplete |-> 0 ],
      results |-> << >>,
      errors |-> << >> ]

\* createBatch(options), lines 55-85: the batch object
createBatch(batchId, items, processOptions, now) ==
    [ id |-> batchId,
      state |-> PENDING,
      createdAt |-> now,
      options |-> processOptions,
      startedAt |-> NULL,
      completedAt |-> NULL,
      items |-> [k \in 1..Len(items) |->
                    [ index |-> k - 1,
                      id |-> items[k],
                      state |-> PENDING,
                      result |-> NULL,
                      error |-> NULL,
                      attempts |-> 0 ]],
      progress |-> [ total |-> Len(items),
                     completed |-> 0,
                     failed |-> 0,
                     pending |-> Len(items),
                     processing |-> 0,
                     percentComplete |-> 0 ],
      results |-> << >>,
      errors |-> << >> ]

\* processBatch, lines 110-112
startBatch(b) == [b EXCEPT !.state = PROCESSING, !.startedAt = "set"]

\* startItem without the decrement of progress.pending
startItemKeepsPending(b, k) ==
    [b EXCEPT !.items[k].state = PROCESSING,
              !.progress.processing = @ + 1]

\* processItem, lines 138-142
startItem(b, k) ==
    [b EXCEPT !.items[k].state = PROCESSING,
              !.progress.pending = @ - 1,
              !.progress.processing = @ + 1]

\* whileCond with <= for <
whileCondInclusive(item) == item.attempts <= maxRetries

\* processItem, line 152
whileCond(item) == item.attempts < maxRetries

\* processItem, line 184
backoffCond(item) == item.attempts < maxRetries

\* Math.pow(2, n) for a natural number n
RECURSIVE Pow2(_)
Pow2(n) == IF n = 0 THEN 1 ELSE 2 * Pow2(n - 1)

\* backoffDelay with the exponent counted from 0
backoffDelayFromOne(item) == Pow2(item.attempts - 1) * 1000

\* processItem, line 185: the milliseconds slept before the next attempt
backoffDelay(item) == Pow2(item.attempts) * 1000

\* succeedItem with results.unshift for results.push
succeedItemUnshift(b, k, result) ==
    [b EXCEPT !.items[k].state = COMPLETED,
              !.items[k].result = result,
              !.progress.processing = @ - 1,
              !.progress.completed = @ + 1,
              !.results = << [ index |-> b.items[k].index,
                               id |-> b.items[k].id,
                               result |-> result ] >> \o @]

\* processItem, lines 159-168
succeedItem(b, k, result) ==
    [b EXCEPT !.items[k].state = COMPLETED,
              !.items[k].result = result,
              !.progress.processing = @ - 1,
              !.progress.completed = @ + 1,
              !.results = Append(@, [ index |-> b.items[k].index,
                                      id |-> b.items[k].id,
                                      result |-> result ])]

\* errorMessage without the fallback for an error that has no message
errorMessageNoFallback(lastError) == lastError

\* processItem, line 193
errorMessage(lastError) ==
    IF lastError = NULL \/ lastError = "" THEN "Unknown error" ELSE lastError

\* failItem without the decrement of progress.processing and without the
\* change of the item's state
failItemStaysProcessing(b, k, lastError) ==
    [b EXCEPT !.items[k].error = errorMessage(lastError),
              !.progress.failed = @ + 1,
              !.errors = Append(@, [ index |-> b.items[k].index,
                                     id |-> b.items[k].id,
                                     error |-> errorMessage(lastError),
                                     attempts |-> b.items[k].attempts ])]

\* processItem, lines 192-202
failItem(b, k, lastError) ==
    [b EXCEPT !.items[k].state = FAILED,
              !.items[k].error = errorMessage(lastError),
              !.progress.processing = @ - 1,
              !.progress.failed = @ + 1,
              !.errors = Append(@, [ index |-> b.items[k].index,
                                     id |-> b.items[k].id,
                                     error |-> errorMessage(lastError),
                                     attempts |-> b.items[k].attempts ])]

\* Math.round(x / y * 100) for 0 <= x <= y, y > 0
RoundPercent(x, y) == (200 * x + y) \div (2 * y)

\* updateProgress, lines 218-221
updateProgress(b) ==
    [b EXCEPT !.progress.percentComplete =
                  RoundPercent(b.progress.completed + b.progress.failed,
                               b.progress.total)]

\* finalizeBatch with the tests on failed and completed exchanged
finalizeBatchSwapped(b) ==
    [b EXCEPT !.completedAt = "set",
              !.state = IF b.state = CANCELLED THEN CANCELLED
                        ELSE IF b.progress.completed = 0 THEN COMPLETED
                        ELSE IF b.progress.failed = 0 THEN FAILED
                        ELSE PARTIAL]

\* finalizeBatch, lines 233-244
finalizeBatch(b) ==
    [b EXCEPT !.completedAt = "set",
              !.state = IF b.state = CANCELLED THEN CANCELLED
                        ELSE IF b.progress.failed = 0 THEN COMPLETED
                        ELSE IF b.progress.completed = 0 THEN FAILED
                        ELSE PARTIAL]

\* cancelRefused for every terminal state
cancelRefusedTerminal(b) ==
    b.state \in {COMPLETED, FAILED, PARTIAL, CANCELLED}

\* cancelBatch, line 295: the states in which cancelBatch refuses
cancelRefused(b) == b.state = COMPLETED \/ b.state = FAILED

\* deleteRefused for a batch that is pending or processing
deleteRefusedWhenActive(b) == b.state = PROCESSING \/ b.state = PENDING

\* deleteBatch, line 347
deleteRefused(b) == b.state = PROCESSING

\* startRefused that only refuses a batch that is being processed
startRefusedWhenProcessing(b) == b.state = PROCESSING

\* processBatch, line 106
startRefused(b) == b.state # PENDING

\* processBatch, line 118: the for-of loop goes on to the next item
nextItem(b, cur) == cur + 1

\* completedEvent carrying the state the batch had during the loop
completedEventStale(before, after) == Event("completed", -1, before.state)

\* finalizeBatch, lines 248-252: the 'completed' event of the batch that
\* was `before` and is now `after`
completedEvent(before, after) == Event("completed", -1, after.state)

\* getBatch, lines 261-263
getBatch(batchId) ==
    IF batchJobs[batchId] = 0 THEN NULL ELSE heap[batchJobs[batchId]]

\* getBatchProgress, lines 271-283
getBatchProgress(batchId) ==
    IF batchJobs[batchId] = 0 THEN NULL
    ELSE LET batch == heap[batchJobs[batchId]] IN
         [ batchId |-> batch.id,
           state |-> batch.state,
           progress |-> batch.progress,
           startedAt |-> batch.startedAt,
           completedAt |-> batch.completedAt ]

\* Array.prototype.sort (stable) with the comparator of line 324: insert
\* batch b into the sorted sequence behind every batch that is not older
RECURSIVE InsertByCreatedAt(_, _)
InsertByCreatedAt(b, sorted) ==
    IF sorted = << >> THEN <<b>>
    ELSE IF sorted[1].createdAt >= b.createdAt
         THEN <<sorted[1]>> \o InsertByCreatedAt(b, Tail(sorted))
         ELSE <<b>> \o sorted
RECURSIVE SortByCreatedAt(_)
SortByCreatedAt(batches) ==
    IF batches = << >> THEN << >>
    ELSE InsertByCreatedAt(batches[Len(batches)],
                           SortByCreatedAt(SubSeq(batches, 1, Len(batches) - 1)))

\* Array.prototype.slice(0, end) on an array of length len: the index the
\* copy stops before (a negative end counts from the end of the array)
sliceEnd(len, end) ==
    IF end < 0 THEN (IF len + end < 0 THEN 0 ELSE len + end)
    ELSE IF end < len THEN end ELSE len

\* listBatches without the sort
listBatchesUnsorted(stateFilter, limit) ==
    LET values == [j \in 1..Len(mapKeys) |-> heap[batchJobs[mapKeys[j]]]]
        batches == IF stateFilter = NULL THEN values
                   ELSE SelectSeq(values, LAMBDA b : b.state = stateFilter)
        sliced == SubSeq(batches, 1, sliceEnd(Len(batches), limit))
    IN  [j \in 1..Len(sliced) |->
            [ id |-> sliced[j].id,
              state |-> sliced[j].state,
              progress |-> sliced[j].progress,
              createdAt |-> sliced[j].createdAt,
              completedAt |-> sliced[j].completedAt ]]

\* listBatches({limit, state}), lines 314-334 (stateFilter NULL: no filter)
listBatches(stateFilter, limit) ==
    LET values == [j \in 1..Len(mapKeys) |-> heap[batchJobs[mapKeys[j]]]]
        batches == IF stateFilter = NULL THEN values
                   ELSE SelectSeq(values, LAMBDA b : b.state = stateFilter)
        sorted == SortByCreatedAt(batches)
        sliced == SubSeq(sorted, 1, sliceEnd(Len(sorted), limit))
    IN  [j \in 1..Len(sliced) |->
            [ id |-> sliced[j].id,
              state |-> sliced[j].state,
              progress |-> sliced[j].progress,
              createdAt |-> sliced[j].createdAt,
              completedAt |-> sliced[j].completedAt ]]

\* loopCancelled that never sees the cancellation
loopCancelledNever(b) == FALSE
\* the loop of a batch stops when any batch is cancelled
loopCancelledAny(b) == \E h \in Refs : heap[h].state = CANCELLED

\* processBatch, line 120
loopCancelled(b) == b.state = CANCELLED

\* ------------------------------------------------------------------ Init
Init ==
    /\ heap = << >>
    /\ batchJobs = [id \in BatchIds |-> 0]
    /\ mapKeys = << >>
    /\ loop = << >>
    /\ batchEvents = << >>
    /\ cancelledEvents = << >>
    /\ calls = << >>
    /\ outstanding = << >>
    /\ cancelAt = << >>
    /\ ret = [op |-> "none", id |-> 0, val |-> "none"]

\* ------------------------------------------------------------- helpers
IdleLoop == [pc |-> "idle", cur |-> 0, lastError |-> NULL, delay |-> 0]
NoCall == [op |-> "none", id |-> 0, val |-> "none"]
Returns(op, batchId, val) == ret' = [op |-> op, id |-> batchId, val |-> val]
\* load of the createBatch calls made so far
RECURSIVE Load(_)
Load(h) == IF h = 0 THEN 0 ELSE 2 + Len(heap[h].items) + Load(h - 1)
\* Date.now() / new Date(): the clock in milliseconds.  SameTick is the
\* tick of the last createBatch call, Clock the ticks the next call can see.
SameTick == IF heap = << >> THEN 1 ELSE heap[Len(heap)].createdAt
Clock == {SameTick, SameTick + 1}
\* generateBatchId at tick now: the timestamp plus six random characters;
\* the value may repeat an id generated in the same millisecond or be a
\* new one
GeneratedIds == {heap[h].id : h \in Refs}
generateBatchId(now) ==
    {heap[h].id : h \in {r \in Refs : heap[r].createdAt = now}} \cup
        {id \in BatchIds : \A other \in BatchIds \ GeneratedIds : id <= other}
\* number of cancelBatch calls accepted so far
RECURSIVE Cancels(_)
Cancels(h) == IF h = 0 THEN 0 ELSE cancelledEvents[h] + Cancels(h - 1)
\* position (1-based) of the item in state processing, 0 if there is none
InFlight(b) ==
    IF \E k \in 1..Len(b.items) : b.items[k].state = PROCESSING
    THEN CHOOSE k \in 1..Len(b.items) : b.items[k].state = PROCESSING
    ELSE 0
Emit(h, ev) == batchEvents' = [batchEvents EXCEPT ![h] = Append(@, ev)]

\* ------------------------------------------------------------- actions
\* createBatch(options), lines 49-91
CreateWith(n, batchId, processOptions, now, maxLoad) ==
    /\ Len(heap) < MaxBatches
    /\ Load(Len(heap)) + 2 + n <= maxLoad
    /\ heap' = Append(heap,
                      createBatch(batchId, ItemList(n), processOptions, now))
    /\ batchJobs' = [batchJobs EXCEPT ![batchId] = Len(heap) + 1]
    /\ mapKeys' = IF batchJobs[batchId] # 0 THEN mapKeys
                  ELSE Append(mapKeys, batchId)
    /\ loop' = Append(loop, IdleLoop)
    /\ batchEvents' = Append(batchEvents, << >>)
    /\ cancelledEvents' = Append(cancelledEvents, 0)
    /\ calls' = Append(calls, [k \in 1..n |-> 0])
    /\ outstanding' = Append(outstanding, 0)
    /\ cancelAt' = Append(cancelAt, -1)

\* ... in the millisecond of the createBatch call before it
Create(n, batchId) == CreateWith(n, batchId, NoOptions, SameTick, MaxLoad)

\* processBatch(batchId, processor), lines 100-115: up to emit('started')
StartNotFound(batchId) ==
    /\ batchJobs[batchId] = 0
    /\ UNCHANGED store

StartNotPending(batchId) ==
    /\ batchJobs[batchId] # 0
    /\ startRefused(heap[batchJobs[batchId]])
    /\ UNCHANGED store

StartAccepted(batchId) ==
    /\ batchJobs[batchId] # 0
    /\ LET h == batchJobs[batchId] IN
        /\ ~startRefused(heap[h])
        /\ heap' = [heap EXCEPT ![h] = startBatch(@)]
        /\ Emit(h, Event("started", -1, "-"))
        /\ loop' = [loop EXCEPT ![h] = [pc |-> "loop", cur |-> 1,
                                        lastError |-> NULL, delay |-> 0]]
    /\ UNCHANGED <<batchJobs, mapKeys, cancelledEvents, calls, outstanding, cancelAt>>

Start(batchId) ==
    \/ StartNotFound(batchId)
    \/ StartNotPending(batchId)
    \/ StartAccepted(batchId)

\* processBatch, lines 118-131: the head of the for loop.  Either the next
\* item is started (processItem lines 138-148, up to emit('itemStarted')),
\* or the loop is left and the batch finalized (finalizeBatch, lines
\* 232-253) and returned.
LoopStartItem(h) ==
    /\ loop[h].pc = "loop"
    /\ loop[h].cur <= Len(heap[h].items)
    /\ ~loopCancelled(heap[h])
    /\ heap' = [heap EXCEPT ![h] = startItem(@, loop[h].cur)]
    /\ Emit(h, Event("itemStarted", heap[h].items[loop[h].cur].index, "-"))
    /\ loop' = [loop EXCEPT ![h].pc = "itemStarted", ![h].lastError = NULL]
    /\ UNCHANGED <<batchJobs, mapKeys, cancelledEvents, calls, outstanding, cancelAt>>

LoopFinalize(h) ==
    /\ loop[h].pc = "loop"
    /\ loop[h].cur > Len(heap[h].items) \/ loopCancelled(heap[h])
    /\ heap' = [heap EXCEPT ![h] = finalizeBatch(@)]
    /\ Emit(h, completedEvent(heap[h], finalizeBatch(heap[h])))
    /\ loop' = [loop EXCEPT ![h].pc = "done"]
    /\ UNCHANGED <<batchJobs, mapKeys, cancelledEvents, calls, outstanding, cancelAt>>

\* processItem, lines 152-156 and 191-209: the while test with the batch
\* object b and lastError err.  Either one more attempt is made (the
\* processor is called and awaited) or the item is marked failed, up to
\* emit('itemFailed').
WhileStep(h, b, err) ==
    LET k == loop[h].cur IN
    IF whileCond(b.items[k])
    THEN /\ heap' = [heap EXCEPT ![h] =
                        [b EXCEPT !.items[k].attempts = @ + 1]]
         /\ calls' = [calls EXCEPT ![h][k] = @ + 1]
         /\ loop' = [loop EXCEPT ![h].pc = "awaitProcessor",
                                 ![h].lastError = err, ![h].delay = 0]
         /\ UNCHANGED batchEvents
    ELSE /\ heap' = [heap EXCEPT ![h] = failItem(b, k, err)]
         /\ Emit(h, Event("itemFailed", b.items[k].index, "-"))
         /\ loop' = [loop EXCEPT ![h].pc = "itemSettled",
                                 ![h].lastError = err, ![h].delay = 0]
         /\ UNCHANGED calls

\* processItem, line 152 reached from line 150
EnterWhile(h) ==
    /\ loop[h].pc = "itemStarted"
    /\ WhileStep(h, heap[h], loop[h].lastError)
    /\ outstanding' = [outstanding EXCEPT ![h] =
                          IF loop'[h].pc = "awaitProcessor" THEN @ + 1 ELSE @]
    /\ UNCHANGED <<batchJobs, mapKeys, cancelledEvents, cancelAt>>

\* processItem, line 186: the backoff sleep ends, back to line 152
WakeUp(h) ==
    /\ loop[h].pc = "sleep"
    /\ WhileStep(h, heap[h], loop[h].lastError)
    /\ outstanding' = [outstanding EXCEPT ![h] =
                          IF loop'[h].pc = "awaitProcessor" THEN @ + 1 ELSE @]
    /\ UNCHANGED <<batchJobs, mapKeys, cancelledEvents, cancelAt>>

\* processItem, lines 156-175: the processor resolves with result
ProcessorResolves(h, result) ==
    /\ loop[h].pc = "awaitProcessor"
    /\ heap' = [heap EXCEPT ![h] = succeedItem(@, loop[h].cur, result)]
    /\ Emit(h, Event("itemCompleted", heap[h].items[loop[h].cur].index, "-"))
    /\ loop' = [loop EXCEPT ![h].pc = "itemSettled"]
    /\ outstanding' = [outstanding EXCEPT ![h] = @ - 1]
    /\ UNCHANGED <<batchJobs, mapKeys, cancelledEvents, calls, cancelAt>>

\* the messages of the errors the invocation awaited by loop h can throw
Thrown(h) ==
    IF loop[h].pc = "awaitProcessor"
    THEN ErrorMessages(calls[h][loop[h].cur]) ELSE {}
AllThrown(h) ==
    IF loop[h].pc = "awaitProcessor"
    THEN AllErrorMessages(calls[h][loop[h].cur]) ELSE {}

\* processItem, lines 179-188: the processor throws an error with message
\* msg; the loop sleeps backoffDelay before the next attempt ...
ProcessorRejectsBackoff(h, msg) ==
    /\ loop[h].pc = "awaitProcessor"
    /\ backoffCond(heap[h].items[loop[h].cur])
    /\ loop' = [loop EXCEPT ![h].pc = "sleep", ![h].lastError = msg,
                            ![h].delay =
                                backoffDelay(heap[h].items[loop[h].cur])]
    /\ outstanding' = [outstanding EXCEPT ![h] = @ - 1]
    /\ UNCHANGED <<heap, batchJobs, mapKeys, batchEvents, cancelledEvents, calls,
                   cancelAt>>

\* ... or goes back to the while test at once
ProcessorRejectsLast(h, msg) ==
    /\ loop[h].pc = "awaitProcessor"
    /\ ~backoffCond(heap[h].items[loop[h].cur])
    /\ WhileStep(h, heap[h], msg)
    /\ outstanding' = [outstanding EXCEPT ![h] =
                          IF loop'[h].pc = "awaitProcessor" THEN @ ELSE @ - 1]
    /\ UNCHANGED <<batchJobs, mapKeys, cancelledEvents, cancelAt>>

\* processItem, lines 177 and 211: updateProgress up to emit('progress'),
\* then back to the for loop
UpdateProgress(h) ==
    /\ loop[h].pc = "itemSettled"
    /\ heap' = [heap EXCEPT ![h] = updateProgress(@)]
    /\ Emit(h, Event("progress", -1, "-"))
    /\ loop' = [loop EXCEPT ![h].pc = "loop",
                            ![h].cur = nextItem(heap[h], @)]
    /\ UNCHANGED <<batchJobs, mapKeys, cancelledEvents, calls, outstanding, cancelAt>>

\* cancelBatch(batchId), lines 291-306
CancelRefused(batchId) ==
    /\ \/ batchJobs[batchId] = 0
       \/ /\ batchJobs[batchId] # 0
          /\ cancelRefused(heap[batchJobs[batchId]])
    /\ UNCHANGED store

CancelAcceptedWithin(batchId, maxCancels) ==
    /\ batchJobs[batchId] # 0
    /\ LET h == batchJobs[batchId] IN
        /\ ~cancelRefused(heap[h])
        /\ Cancels(Len(heap)) < maxCancels
        /\ heap' = [heap EXCEPT ![h].state = CANCELLED]
        /\ cancelledEvents' = [cancelledEvents EXCEPT ![h] = @ + 1]
        /\ cancelAt' = [cancelAt EXCEPT ![h] =
               IF heap[h].state = PROCESSING /\ InFlight(heap[h]) # 0
               THEN heap[h].items[InFlight(heap[h])].index
               ELSE @]
    /\ UNCHANGED <<batchJobs, mapKeys, loop, batchEvents, calls, outstanding>>

CancelAccepted(batchId) == CancelAcceptedWithin(batchId, MaxCancels)

Cancel(batchId) == CancelRefused(batchId) \/ CancelAccepted(batchId)

\* deleteBatch(batchId), lines 342-354
DeleteRefused(batchId) ==
    /\ \/ batchJobs[batchId] = 0
       \/ /\ batchJobs[batchId] # 0
          /\ deleteRefused(heap[batchJobs[batchId]])
    /\ UNCHANGED store

DeleteAccepted(batchId) ==
    /\ batchJobs[batchId] # 0
    /\ ~deleteRefused(heap[batchJobs[batchId]])
    /\ batchJobs' = [batchJobs EXCEPT ![batchId] = 0]
    /\ mapKeys' = SelectSeq(mapKeys, LAMBDA key : key # batchId)
    /\ UNCHANGED <<heap, loop, batchEvents, cancelledEvents, calls,
                   outstanding, cancelAt>>

Delete(batchId) == DeleteRefused(batchId) \/ DeleteAccepted(batchId)

Next ==
    \/ \E n \in 0..MaxLoad : \E batchId \in generateBatchId(SameTick) :
           Create(n, batchId) /\ UNCHANGED ret
    \/ \E batchId \in BatchIds : Start(batchId) /\ UNCHANGED ret
    \/ \E batchId \in BatchIds : Cancel(batchId) /\ UNCHANGED ret
    \/ \E batchId \in BatchIds : Delete(batchId) /\ UNCHANGED ret
    \/ \E h \in Refs : LoopStartItem(h) /\ UNCHANGED ret
    \/ \E h \in Refs : LoopFinalize(h) /\ UNCHANGED ret
    \/ \E h \in Refs : EnterWhile(h) /\ UNCHANGED ret
    \/ \E h \in Refs : WakeUp(h) /\ UNCHANGED ret
    \/ \E h \in Refs : \E result \in Results :
           ProcessorResolves(h, result) /\ UNCHANGED ret
    \/ \E h \in Refs : \E msg \in Thrown(h) :
           ProcessorRejectsBackoff(h, msg) /\ UNCHANGED ret
    \/ \E h \in Refs : \E msg \in Thrown(h) :
           ProcessorRejectsLast(h, msg) /\ UNCHANGED ret
    \/ \E h \in Refs : UpdateProgress(h) /\ UNCHANGED ret

Spec == Init /\ [][Next]_vars

\* The same operations with ret recording what each call returns: the
\* promise of processBatch is rejected ("throw") by lines 103 and 107,
\* pending ("promise") once the loop runs and resolved with the batch
\* ("batch") by line 131.
CallNext ==
    \/ \E n \in 0..MaxSmallLoad : \E batchId \in generateBatchId(SameTick) :
           /\ CreateWith(n, batchId, NoOptions, SameTick, MaxSmallLoad)
           /\ Returns("createBatch", batchId, "batch")
    \/ \E batchId \in BatchIds :
           StartNotFound(batchId) /\ Returns("processBatch", batchId, "throw")
    \/ \E batchId \in BatchIds :
           StartNotPending(batchId) /\ Returns("processBatch", batchId, "throw")
    \/ \E batchId \in BatchIds :
           StartAccepted(batchId) /\ Returns("processBatch", batchId, "promise")
    \/ \E batchId \in BatchIds :
           CancelRefused(batchId) /\ Returns("cancelBatch", batchId, "false")
    \/ \E batchId \in BatchIds :
           /\ CancelAcceptedWithin(batchId, MaxCallCancels)
           /\ Returns("cancelBatch", batchId, "true")
    \/ \E batchId \in BatchIds :
           DeleteRefused(batchId) /\ Returns("deleteBatch", batchId, "false")
    \/ \E batchId \in BatchIds :
           DeleteAccepted(batchId) /\ Returns("deleteBatch", batchId, "true")
    \/ \E h \in Refs : LoopStartItem(h) /\ ret' = NoCall
    \/ \E h \in Refs :
           LoopFinalize(h) /\ Returns("processBatch", heap[h].id, "batch")
    \/ \E h \in Refs : EnterWhile(h) /\ ret' = NoCall
    \/ \E h \in Refs : WakeUp(h) /\ ret' = NoCall
    \/ \E h \in Refs : \E result \in Results :
           ProcessorResolves(h, result) /\ ret' = NoCall
    \/ \E h \in Refs : \E msg \in Thrown(h) :
           ProcessorRejectsBackoff(h, msg) /\ ret' = NoCall
    \/ \E h \in Refs : \E msg \in Thrown(h) :
           ProcessorRejectsLast(h, msg) /\ ret' = NoCall
    \/ \E h \in Refs : UpdateProgress(h) /\ ret' = NoCall

CallSpec == Init /\ [][CallNext]_vars

\* The same operations with every input the callers and the processor can
\* supply: options.retries, a null result, an error without a message.
InputNext ==
    \/ \E n \in 0..MaxSmallLoad : \E batchId \in generateBatchId(SameTick) :
       \E processOptions \in AllOptions :
           /\ CreateWith(n, batchId, processOptions, SameTick, MaxSmallLoad)
           /\ UNCHANGED ret
    \/ \E batchId \in BatchIds : Start(batchId) /\ UNCHANGED ret
    \/ \E batchId \in BatchIds : Cancel(batchId) /\ UNCHANGED ret
    \/ \E batchId \in BatchIds : Delete(batchId) /\ UNCHANGED ret
    \/ \E h \in Refs : LoopStartItem(h) /\ UNCHANGED ret
    \/ \E h \in Refs : LoopFinalize(h) /\ UNCHANGED ret
    \/ \E h \in Refs : EnterWhile(h) /\ UNCHANGED ret
    \/ \E h \in Refs : WakeUp(h) /\ UNCHANGED ret
    \/ \E h \in Refs : \E result \in AllResults :
           ProcessorResolves(h, result) /\ UNCHANGED ret
    \/ \E h \in Refs : \E msg \in AllThrown(h) :
           ProcessorRejectsBackoff(h, msg) /\ UNCHANGED ret
    \/ \E h \in Refs : \E msg \in AllThrown(h) :
           ProcessorRejectsLast(h, msg) /\ UNCHANGED ret
    \/ \E h \in Refs : UpdateProgress(h) /\ UNCHANGED ret

InputSpec == Init /\ [][InputNext]_vars

\* the limits listBatches is called with
Limits == 0..(MaxBatches + 1)

\* a call of listBatches({limit, state}), lines 314-334: it reads the Map
\* and sorts and slices its own copy of the values; ret.id is the number
\* of entries returned
List(stateFilter, limit) ==
    /\ UNCHANGED store
    /\ Returns("listBatches", Len(listBatches(stateFilter, limit)), "list")

\* The same operations with a clock that may advance between two
\* createBatch calls (in Spec, CallSpec and InputSpec all createBatch calls
\* fall into one millisecond, the case in which ids can repeat), and with
\* calls of listBatches.
ClockNext ==
    \/ \E n \in 0..MaxSmallLoad : \E now \in Clock :
       \E batchId \in generateBatchId(now) :
           /\ CreateWith(n, batchId, NoOptions, now, MaxSmallLoad)
           /\ ret' = NoCall
    \/ \E batchId \in BatchIds : Start(batchId) /\ ret' = NoCall
    \/ \E batchId \in BatchIds : Cancel(batchId) /\ ret' = NoCall
    \/ \E batchId \in BatchIds : Delete(batchId) /\ ret' = NoCall
    \/ \E h \in Refs : LoopStartItem(h) /\ ret' = NoCall
    \/ \E h \in Refs : LoopFinalize(h) /\ ret' = NoCall
    \/ \E h \in Refs : EnterWhile(h) /\ ret' = NoCall
    \/ \E h \in Refs : WakeUp(h) /\ ret' = NoCall
    \/ \E h \in Refs : \E result \in Results :
           ProcessorResolves(h, result) /\ ret' = NoCall
    \/ \E h \in Refs : \E msg \in Thrown(h) :
           ProcessorRejectsBackoff(h, msg) /\ ret' = NoCall
    \/ \E h \in Refs : \E msg \in Thrown(h) :
           ProcessorRejectsLast(h, msg) /\ ret' = NoCall
    \/ \E h \in Refs : UpdateProgress(h) /\ ret' = NoCall
    \/ \E stateFilter \in BatchState \cup {NULL} : \E limit \in Limits :
           List(stateFilter, limit)

ClockSpec == Init /\ [][ClockNext]_vars

TypeOK ==
    /\ \A h \in Refs : heap[h].state \in BatchState
    /\ \A id \in BatchIds : batchJobs[id] \in 0..Len(heap)
    /\ ret.op \in {"none", "createBatch", "processBatch", "cancelBatch",
                   "deleteBatch", "listBatches", "getBatchProgress",
                   "progress"}

\* ------------------------------------------------------------ properties
Terminal == {COMPLETED, FAILED, PARTIAL, CANCELLED}
ItemsIn(b, st) == {k \in 1..Len(b.items) : b.items[k].state = st}
Settled(b, k) == b.items[k].state \in {COMPLETED, FAILED}
EventsOfType(h, type) ==
    SelectSeq(batchEvents[h], LAMBDA ev : ev.type = type)

\* C1: in every state of every batch object (stored or deleted, at every
\* emit and every await) completed + failed + pending + processing equals
\* progress.total, and progress.total is the number of items submitted to
\* createBatch.
C1_ProgressPartition ==
    \A h \in Refs :
        LET p == heap[h].progress IN
        /\ p.completed + p.failed + p.pending + p.processing = p.total
        /\ p.total = Len(calls[h])
        /\ p.total = Len(heap[h].items)

\* C1 witness: a cancelled batch with one item settled, one in flight and
\* one pending.
C1_Witness ==
    \E h \in Refs :
        /\ heap[h].state = CANCELLED
        /\ heap[h].progress.processing = 1
        /\ heap[h].progress.pending = 1
        /\ heap[h].progress.completed + heap[h].progress.failed = 1

\* C2: a batch whose state is completed, failed, partial or cancelled keeps
\* that state in every later step.
C2_TerminalAbsorbing ==
    [][\A h \in Refs :
          heap[h].state \in Terminal => heap'[h].state = heap[h].state]_vars

\* C3: a batch in a terminal state has completedAt set, and no step taken
\* from such a state changes any of its items.
C3_TerminalSettled ==
    /\ [](\A h \in Refs :
             heap[h].state \in Terminal => heap[h].completedAt # NULL)
    /\ [][\A h \in Refs :
             heap[h].state \in Terminal => heap'[h].items = heap[h].items]_vars

\* C4: after cancelBatch on a processing batch with the item of index k in
\* flight, no item of index > k is ever started or passed to the processor,
\* and when processBatch returns the state is cancelled, every item of
\* index <= k is completed or failed and none is processing.
C4_CancelMidFlight ==
    \A h \in Refs :
        cancelAt[h] # -1 =>
            LET b == heap[h] IN
            /\ \A k \in 1..Len(b.items) :
                   b.items[k].index > cancelAt[h] =>
                       /\ b.items[k].state = PENDING
                       /\ b.items[k].attempts = 0
                       /\ calls[h][k] = 0
            /\ loop[h].pc = "done" =>
                   /\ b.state = CANCELLED
                   /\ \A k \in 1..Len(b.items) :
                          b.items[k].index <= cancelAt[h] => Settled(b, k)
                   /\ ItemsIn(b, PROCESSING) = {}

\* C4 witness: processBatch returned for a batch of at least two items that
\* was cancelled while its first item was in flight.
C4_Witness ==
    \E h \in Refs :
        /\ loop[h].pc = "done"
        /\ cancelAt[h] = 0
        /\ Len(heap[h].items) >= 2
        /\ heap[h].items[1].attempts = maxRetries

\* C5: cancelBatch on a pending batch makes it cancelled (and emits
\* 'cancelled', the path that returns true); from then on no step changes
\* the batch object, starts its loop, calls the processor for it or emits a
\* loop event for it, so every item stays pending with attempts 0.
C5_CancelPending ==
    [][\A h \in Refs :
          /\ (heap[h].state = PENDING
                /\ cancelledEvents'[h] = cancelledEvents[h] + 1)
             => (heap'[h].state = CANCELLED /\ loop'[h].pc = "idle")
          /\ (heap[h].state = CANCELLED /\ loop[h].pc = "idle")
             => /\ heap'[h] = heap[h]
                /\ loop'[h] = loop[h]
                /\ batchEvents'[h] = << >>
                /\ \A k \in 1..Len(heap[h].items) :
                       /\ heap'[h].items[k].state = PENDING
                       /\ heap'[h].items[k].attempts = 0
                       /\ calls'[h][k] = 0]_vars

\* C5 witness: a stored batch with items that was cancelled before it was
\* started.
C5_Witness ==
    \E id \in BatchIds :
        /\ batchJobs[id] # 0
        /\ heap[batchJobs[id]].state = CANCELLED
        /\ loop[batchJobs[id]].pc = "idle"
        /\ cancelledEvents[batchJobs[id]] >= 1
        /\ Len(heap[batchJobs[id]].items) >= 1

\* C6: the itemStarted events of a batch carry the indexes 0, 1, 2, ... in
\* this order, and an item is started (or passed to the processor) only
\* when the item before it is completed or failed.
C6_SubmissionOrder ==
    \A h \in Refs :
        /\ \A j \in 1..Len(EventsOfType(h, "itemStarted")) :
               EventsOfType(h, "itemStarted")[j].itemIndex = j - 1
        /\ Len(EventsOfType(h, "itemStarted")) =
               Cardinality({k \in 1..Len(heap[h].items) :
                               heap[h].items[k].state # PENDING})
        /\ \A k \in 2..Len(heap[h].items) :
               (heap[h].items[k].state # PENDING \/ calls[h][k] > 0)
                   => Settled(heap[h], k - 1)

\* C6 witness: the third item of a batch has been started.
C6_Witness ==
    \E h \in Refs :
        /\ Len(EventsOfType(h, "itemStarted")) = 3
        /\ heap[h].items[3].state = PROCESSING

\* C7: every batch object has at most one item in state processing,
\* progress.processing <= 1 and at most one processor invocation that has
\* not settled.
C7_OneInFlight ==
    \A h \in Refs :
        /\ Cardinality(ItemsIn(heap[h], PROCESSING)) <= 1
        /\ heap[h].progress.processing <= 1
        /\ outstanding[h] <= 1

\* C7 witness: two batches each await the processor for their item, one of
\* them cancelled and deleted from the Map.
C7_Witness ==
    \E h1 \in Refs : \E h2 \in Refs \ {h1} :
        /\ \A id \in BatchIds : batchJobs[id] # h1
        /\ heap[h1].state = CANCELLED
        /\ outstanding[h1] = 1 /\ outstanding[h2] = 1
        /\ heap[h1].progress.processing = 1
        /\ heap[h2].progress.processing = 1
        /\ ItemsIn(heap[h1], PROCESSING) = {1}
        /\ ItemsIn(heap[h2], PROCESSING) = {1}

\* C8: when processBatch has returned for a batch that was never cancelled,
\* every item is completed or failed and the state is completed exactly
\* when no item failed (errors is then empty), failed exactly when an item
\* failed and none completed (results is then empty), and partial exactly
\* when an item completed and an item failed.
C8_FinalState ==
    \A h \in Refs :
        (loop[h].pc = "done" /\ cancelledEvents[h] = 0) =>
            LET b == heap[h]
                nc == Cardinality(ItemsIn(b, COMPLETED))
                nf == Cardinality(ItemsIn(b, FAILED))
            IN  /\ nc + nf = Len(b.items)
                /\ b.state = COMPLETED <=> nf = 0
                /\ b.state = COMPLETED => b.errors = << >>
                /\ b.state = FAILED <=> (nf > 0 /\ nc = 0)
                /\ b.state = FAILED => b.results = << >>
                /\ b.state = PARTIAL <=> (nc > 0 /\ nf > 0)

\* C8 witness: processBatch returned for a never-cancelled batch in which
\* an item failed and an item completed.
C8_Witness ==
    \E h \in Refs :
        /\ loop[h].pc = "done"
        /\ cancelledEvents[h] = 0
        /\ heap[h].state = PARTIAL

\* the records results / errors must hold for the items of b
ExpectedResults(b) ==
    LET ok == SelectSeq(b.items, LAMBDA it : it.state = COMPLETED)
    IN  [j \in 1..Len(ok) |->
            [index |-> ok[j].index, id |-> ok[j].id, result |-> ok[j].result]]
ExpectedErrors(b) ==
    LET ko == SelectSeq(b.items, LAMBDA it : it.state = FAILED)
    IN  [j \in 1..Len(ko) |->
            [index |-> ko[j].index, id |-> ko[j].id, error |-> ko[j].error,
             attempts |-> maxRetries]]

\* C9: when processBatch has returned, results holds one record per
\* completed item in ascending index order and errors one record per failed
\* item in ascending index order, each with attempts = maxRetries; a
\* never-cancelled batch [A, B, C] in which A and C completed on the first
\* attempt and B failed is partial with results [A, C] and errors [B].
C9_ResultsAndErrors ==
    \A h \in Refs :
        loop[h].pc = "done" =>
            LET b == heap[h] IN
            /\ b.results = ExpectedResults(b)
            /\ b.errors = ExpectedErrors(b)
            /\ \A k \in ItemsIn(b, FAILED) : calls[h][k] = maxRetries
            /\ ( /\ cancelledEvents[h] = 0
                 /\ Len(b.items) = 3
                 /\ b.items[1].state = COMPLETED /\ calls[h][1] = 1
                 /\ b.items[2].state = FAILED
                 /\ b.items[3].state = COMPLETED /\ calls[h][3] = 1 )
               => /\ b.state = PARTIAL
                  /\ [j \in 1..Len(b.results) |-> b.results[j].id]
                         = <<"A", "C">>
                  /\ [j \in 1..Len(b.errors) |-> b.errors[j].id] = <<"B">>
                  /\ b.errors[1].attempts = maxRetries

\* C9 witness: the batch [A, B, C] with A and C completed on the first
\* attempt and B failed, after processBatch returned.
C9_Witness ==
    \E h \in Refs :
        /\ loop[h].pc = "done"
        /\ cancelledEvents[h] = 0
        /\ Len(heap[h].items) = 3
        /\ heap[h].items[1].state = COMPLETED /\ calls[h][1] = 1
        /\ heap[h].items[2].state = FAILED
        /\ heap[h].items[3].state = COMPLETED /\ calls[h][3] = 1

\* C10: the attempts of every item, and the number of processor
\* invocations made for it, are between 0 and maxRetries.
C10_AttemptsBounded ==
    \A h \in Refs : \A k \in 1..Len(heap[h].items) :
        /\ heap[h].items[k].attempts \in 0..maxRetries
        /\ calls[h][k] = heap[h].items[k].attempts

\* C10 witness: an item of a cancelled batch is awaiting its third and last
\* attempt.
C10_Witness ==
    \E h \in Refs : \E k \in 1..Len(heap[h].items) :
        /\ heap[h].state = CANCELLED
        /\ loop[h].pc = "awaitProcessor"
        /\ heap[h].items[k].attempts = maxRetries

\* C11: an item in state completed has result non-null and error null, an
\* item in state failed has error non-null and result null, and an item in
\* state pending or processing has both null, whatever the processor
\* resolves with (null included) or throws (an error without a message
\* included).
C11_ResultXorError ==
    \A h \in Refs : \A k \in 1..Len(heap[h].items) :
        LET item == heap[h].items[k] IN
        /\ item.state = COMPLETED => (item.result # NULL /\ item.error = NULL)
        /\ item.state = FAILED => (item.error # NULL /\ item.result = NULL)
        /\ item.state \in {PENDING, PROCESSING} =>
               (item.result = NULL /\ item.error = NULL)

\* C12: in a batch created with options.retries = r no item has more than r
\* attempts or processor invocations, and a failed item has attempts = r.
C12_RetriesOption ==
    \A h \in Refs : \A k \in 1..Len(heap[h].items) :
        LET r == heap[h].options.retries IN
        r # NoOptions.retries =>
            /\ heap[h].items[k].attempts <= r
            /\ calls[h][k] <= r
            /\ heap[h].items[k].state = FAILED =>
                   heap[h].items[k].attempts = r

\* C13: a processBatch call for an id that is not in the Map, or for a batch
\* whose state is not pending, throws and changes nothing (no event, no
\* processor invocation, Map and batch as before); a call for a pending
\* batch starts its loop; so every batch object has at most one 'started'
\* event and a loop only if it has one.
C13_StartRefused ==
    /\ [](\A h \in Refs :
             /\ Len(EventsOfType(h, "started")) <= 1
             /\ loop[h].pc # "idle" => Len(EventsOfType(h, "started")) = 1)
    /\ [][(ret'.op = "processBatch" /\ ret'.val # "batch") =>
             LET h == batchJobs[ret'.id] IN
             IF h = 0 \/ heap[IF h = 0 THEN 1 ELSE h].state # PENDING
             THEN ret'.val = "throw" /\ UNCHANGED store
             ELSE /\ ret'.val = "promise"
                  /\ loop[h].pc = "idle"
                  /\ loop'[h].pc = "loop"
                  /\ Len(EventsOfType(h, "started")) = 0]_vars

\* C13 witness: processBatch has just thrown for a stored batch that is
\* processing and awaits the processor.
C13_Witness ==
    /\ ret.op = "processBatch" /\ ret.val = "throw"
    /\ batchJobs[ret.id] # 0
    /\ heap[batchJobs[ret.id]].state = PROCESSING
    /\ loop[batchJobs[ret.id]].pc = "awaitProcessor"

\* C14: cancelBatch returns false and changes nothing when the id is not in
\* the Map or the batch is completed or failed; in every other state it
\* sets the state to cancelled, emits one 'cancelled' event for the id,
\* changes nothing else and returns true.
C14_Cancel ==
    [][ret'.op = "cancelBatch" =>
          LET h == batchJobs[ret'.id] IN
          IF h = 0 \/ heap[IF h = 0 THEN 1 ELSE h].state \in {COMPLETED, FAILED}
          THEN ret'.val = "false" /\ UNCHANGED store
          ELSE /\ ret'.val = "true"
               /\ heap[h].id = ret'.id
               /\ heap' = [heap EXCEPT ![h].state = CANCELLED]
               /\ cancelledEvents' = [cancelledEvents EXCEPT ![h] = @ + 1]
               /\ UNCHANGED <<batchJobs, mapKeys, loop, batchEvents, calls,
                              outstanding>>]_vars

\* C14 witness: cancelBatch has just returned true for a batch whose loop
\* had ended with a completed and a failed item.
C14_Witness ==
    /\ ret.op = "cancelBatch" /\ ret.val = "true"
    /\ batchJobs[ret.id] # 0
    /\ LET b == heap[batchJobs[ret.id]] IN
        /\ b.state = CANCELLED
        /\ loop[batchJobs[ret.id]].pc = "done"
        /\ b.progress.completed = 1 /\ b.progress.failed = 1

C16_CreateValidated ==
    [][(ret'.op = "createBatch" /\ Len(heap') = Len(heap) + 1) =>
          Len(heap'[Len(heap')].items) \in 1..maxItems]_vars

\* C17: a rejection of the processor is never the outcome of a call (no
\* call returns or throws in that step; the loop sleeps or settles the
\* item), a processBatch call that was accepted ends by returning the
\* batch, and when it has returned for a batch that was never cancelled
\* every item, also those after a failed item, is completed or failed.
C17_FailureAbsorbed ==
    /\ [](\A h \in Refs :
             (loop[h].pc = "done" /\ cancelledEvents[h] = 0) =>
                 \A k \in 1..Len(heap[h].items) : Settled(heap[h], k))
    /\ [][\A h \in Refs :
             /\ (loop[h].pc = "awaitProcessor"
                    /\ loop'[h].pc # "awaitProcessor")
                => /\ ret' = NoCall
                   /\ loop'[h].pc \in {"sleep", "itemSettled"}
             /\ (loop[h].pc # "done" /\ loop'[h].pc = "done")
                => ret' = [op |-> "processBatch", id |-> heap[h].id,
                           val |-> "batch"]
             /\ (loop[h].pc \notin {"idle", "done"}
                    /\ ret'.op = "processBatch" /\ ret'.val = "throw")
                => loop'[h] = loop[h]]_vars

C19_Backoff ==
    /\ [](\A h \in Refs :
             IF loop[h].pc = "sleep"
             THEN LET item == heap[h].items[loop[h].cur] IN
                  /\ item.state = PROCESSING
                  /\ item.attempts = calls[h][loop[h].cur]
                  /\ item.attempts \in 1..(maxRetries - 1)
                  /\ loop[h].delay = <<2000, 4000>>[item.attempts]
             ELSE loop[h].delay = 0)
    /\ [][\A h \in Refs :
             /\ (loop[h].pc # "sleep" /\ loop'[h].pc = "sleep")
                => /\ loop[h].pc = "awaitProcessor"
                   /\ heap'[h] = heap[h]
             /\ (loop[h].pc = "sleep" /\ loop'[h].pc # "sleep")
                => /\ loop'[h].pc = "awaitProcessor"
                   /\ calls'[h][loop[h].cur] = calls[h][loop[h].cur] + 1]_vars

\* C19 witness: a loop sleeps 4000 ms after the second rejection.
C19_Witness ==
    \E h \in Refs :
        /\ loop[h].pc = "sleep"
        /\ loop[h].delay = 4000
        /\ heap[h].items[loop[h].cur].attempts = 2

\* C20: the events a processBatch call emits are 'started', then for the
\* items of index 0, 1, 2, ... in turn 'itemStarted', 'itemCompleted' or
\* 'itemFailed' (as the item ended) and 'progress', then one 'completed'
\* event after which nothing follows; 'completed' is emitted when the call
\* returns, after the three events of every started item, and carries the
\* state the batch has at that moment.
C20_EventOrder ==
    /\ [](\A h \in Refs :
             LET s == batchEvents[h]
                 n == Len(s)
             IN  /\ n = 0 <=> loop[h].pc = "idle"
                 /\ n > 0 => s[1] = Event("started", -1, "-")
                 /\ \A j \in 2..n :
                        LET i == (j - 2) \div 3
                            r == (j - 2) % 3
                        IN  IF s[j].type = "completed"
                            THEN j = n /\ r = 0 /\ s[j].itemIndex = -1
                                 /\ s[j].state \in Terminal
                            ELSE /\ i < Len(heap[h].items)
                                 /\ r = 0 => s[j] = Event("itemStarted", i, "-")
                                 /\ r = 1 =>
                                      s[j] = Event(
                                        IF heap[h].items[i + 1].state = COMPLETED
                                        THEN "itemCompleted" ELSE "itemFailed",
                                        i, "-")
                                 /\ r = 1 => Settled(heap[h], i + 1)
                                 /\ r = 2 => s[j] = Event("progress", -1, "-")
                 /\ loop[h].pc = "done" <=>
                        (n > 0 /\ s[n].type = "completed")
                 /\ Len(EventsOfType(h, "itemStarted")) =
                        Cardinality({k \in 1..Len(heap[h].items) :
                                        heap[h].items[k].state # PENDING}))
    /\ [][\A h \in Refs :
             (loop[h].pc # "done" /\ loop'[h].pc = "done") =>
                 batchEvents'[h][Len(batchEvents'[h])].state = heap'[h].state]_vars

\* C20 witness: processBatch has returned for a batch of two items that
\* was cancelled while its first item was in flight: 'started', the three
\* events of the first item, 'completed' with state cancelled.
C20_Witness ==
    \E h \in Refs :
        /\ loop[h].pc = "done"
        /\ cancelAt[h] = 0
        /\ Len(heap[h].items) = 2
        /\ Len(batchEvents[h]) = 5
        /\ batchEvents[h][5] = Event("completed", -1, CANCELLED)

\* C21: whenever getBatchProgress is called for a stored batch with items
\* (between two steps of its loop, or by a subscriber inside an emit), the
\* percentComplete it returns is round(100 * (completed + failed) / total)
\* of the counts it returns.
C21_PercentComplete ==
    \A id \in BatchIds :
        batchJobs[id] # 0 =>
            LET p == getBatchProgress(id).progress IN
            p.total > 0 =>
                p.percentComplete = RoundPercent(p.completed + p.failed, p.total)

\* what the program keeps for batch object h: the object itself and the
\* position, events and processor calls of its processBatch
ObjectView(h) ==
    <<heap[h], loop[h], batchEvents[h], cancelledEvents[h], calls[h],
      outstanding[h], cancelAt[h]>>
ObjectViewNext(h) ==
    <<heap'[h], loop'[h], batchEvents'[h], cancelledEvents'[h], calls'[h],
      outstanding'[h], cancelAt'[h]>>

\* C22: batches are independent.  A step that changes anything of one batch
\* object (a step of its loop, a settled processor call, an accepted
\* cancelBatch) changes nothing of any other batch object and no entry of
\* the Map; a step that changes the Map entry of one id (createBatch,
\* deleteBatch) changes no existing batch object and no entry of another id;
\* and the loop of a batch that was never cancelled itself has, when
\* processBatch returns, started every item of the batch once, in order,
\* and settled each, whatever happened to other batches meanwhile.
C22_Independent ==
    /\ [][LET changed == {h \in Refs : ObjectViewNext(h) # ObjectView(h)}
               moved == {id \in BatchIds : batchJobs'[id] # batchJobs[id]}
           IN  /\ Cardinality(changed) <= 1
               /\ Cardinality(moved) <= 1
               /\ changed = {} \/ moved = {}]_vars
    /\ [](\A h \in Refs :
              loop[h].pc = "done" /\ cancelledEvents[h] = 0
                  => /\ \A k \in 1..Len(heap[h].items) : Settled(heap[h], k)
                     /\ EventsOfType(h, "itemStarted") =
                            [k \in 1..Len(heap[h].items) |->
                                Event("itemStarted", heap[h].items[k].index, "-")])

\* C22 witness: a batch with an item was cancelled and deleted while its
\* loop waited in the backoff, and meanwhile the loop of another batch,
\* never cancelled, has returned with each of its items settled.
C22_Witness ==
    \E h1 \in Refs : \E h2 \in Refs \ {h1} :
        /\ loop[h1].pc = "sleep"
        /\ heap[h1].state = CANCELLED
        /\ \A id \in BatchIds : batchJobs[id] # h1
        /\ loop[h2].pc = "done"
        /\ cancelledEvents[h2] = 0
        /\ Len(heap[h2].items) >= 1
        /\ \A k \in 1..Len(heap[h2].items) : Settled(heap[h2], k)

\* the batch objects the Map holds, and the summary listBatches makes of one
StoredBatches == {heap[batchJobs[id]] : id \in {i \in BatchIds : batchJobs[i] # 0}}
Summary(b) ==
    [ id |-> b.id, state |-> b.state, progress |-> b.progress,
      createdAt |-> b.createdAt, completedAt |-> b.completedAt ]

\* C23: for every state filter (or none) and every limit >= 0,
\* listBatches returns min(limit, number of matching stored batches)
\* entries, so at most limit; every entry is the summary of a stored batch
\* that matches the filter, no batch is listed twice, createdAt does not
\* increase along the list, and a matching stored batch that is left out is
\* not newer than any listed one.  The call changes no batch object and
\* not the Map.
C23_List ==
    /\ [](\A stateFilter \in BatchState \cup {NULL} : \A limit \in Limits :
            LET out == listBatches(stateFilter, limit)
                matching == {b \in StoredBatches :
                                stateFilter = NULL \/ b.state = stateFilter}
            IN  /\ Len(out) <= limit
                /\ Len(out) = IF limit < Cardinality(matching) THEN limit
                              ELSE Cardinality(matching)
                /\ \A j \in 1..Len(out) :
                       \E b \in matching : out[j] = Summary(b)
                /\ \A j \in 1..Len(out) : \A k \in 1..Len(out) :
                       /\ j < k => out[j].createdAt >= out[k].createdAt
                       /\ j # k => out[j].id # out[k].id
                /\ \A b \in matching :
                       (\A j \in 1..Len(out) : out[j].id # b.id)
                           => \A j \in 1..Len(out) :
                                  out[j].createdAt >= b.createdAt)
    /\ [][ret'.op = "listBatches" => UNCHANGED store]_vars

\* C23 witness: listBatches has been called with two batches stored, the
\* second created a millisecond after the first and inserted behind it in
\* the Map; with limit 1 the list is the newer batch alone, and with the
\* filter 'cancelled' it is the older one alone.
C23_Witness ==
    /\ ret.op = "listBatches"
    /\ Len(mapKeys) = 2
    /\ heap[batchJobs[mapKeys[1]]].createdAt < heap[batchJobs[mapKeys[2]]].createdAt
    /\ Len(listBatches(NULL, 1)) = 1
    /\ listBatches(NULL, 1)[1].id = mapKeys[2]
    /\ Len(listBatches(CANCELLED, 2)) = 1
    /\ listBatches(CANCELLED, 2)[1].id = mapKeys[1]

\* ids that have an entry in the Map
StoredIds == {id \in BatchIds : batchJobs[id] # 0}

\* C24: every createBatch call stores the new batch under an id that no
\* stored batch has: the Map keeps every entry it had and gains exactly one;
\* and the id of a batch object never changes.
C24_FreshId ==
    [][/\ Len(heap') > Len(heap)
          => /\ heap'[Len(heap')].id \notin StoredIds
             /\ \A id \in StoredIds : batchJobs'[id] = batchJobs[id]
             /\ Cardinality({id \in BatchIds : batchJobs'[id] # 0})
                    = Cardinality(StoredIds) + 1
       /\ \A h \in Refs : heap'[h].id = heap[h].id]_vars

\* C25: a deleteBatch call that returns true removes a batch whose
\* processBatch is not running: it was never started or it has returned.
C25_DeleteNotRunning ==
    [][ret'.op = "deleteBatch" /\ ret'.val = "true"
           => loop[batchJobs[ret'.id]].pc \in {"idle", "done"}]_vars

\* ------------------------------------------------- handed-out progress
\* The same operations with a caller that keeps what it was handed: ret is
\* the last progress value handed out, by getBatchProgress (line 278) or as
\* the payload of a 'progress' event (lines 223-226), with the batch object
\* it was read from (id) and the value it had at that moment (val).  Both
\* hand out batch.progress itself, not a copy.
GetProgressNotFound(batchId) ==
    /\ batchJobs[batchId] = 0
    /\ UNCHANGED vars

GetProgress(batchId) ==
    /\ batchJobs[batchId] # 0
    /\ UNCHANGED store
    /\ ret' = [op |-> "getBatchProgress", id |-> batchJobs[batchId],
               val |-> getBatchProgress(batchId).progress]

\* a subscriber of 'progress' keeps the payload of the event
UpdateProgressKept(h) ==
    /\ UpdateProgress(h)
    /\ ret' = [op |-> "progress", id |-> h, val |-> heap'[h].progress]

\* what the value handed out reads as now: the progress object of the batch
HandedOut == heap[ret.id].progress

ReadNext ==
    \/ \E n \in 0..MaxSmallLoad : \E batchId \in generateBatchId(SameTick) :
           /\ CreateWith(n, batchId, NoOptions, SameTick, MaxSmallLoad)
           /\ UNCHANGED ret
    \/ \E batchId \in BatchIds : Start(batchId) /\ UNCHANGED ret
    \/ \E batchId \in BatchIds : Cancel(batchId) /\ UNCHANGED ret
    \/ \E batchId \in BatchIds : Delete(batchId) /\ UNCHANGED ret
    \/ \E batchId \in BatchIds : GetProgressNotFound(batchId)
    \/ \E batchId \in BatchIds : GetProgress(batchId)
    \/ \E h \in Refs : LoopStartItem(h) /\ UNCHANGED ret
    \/ \E h \in Refs : LoopFinalize(h) /\ UNCHANGED ret
    \/ \E h \in Refs : EnterWhile(h) /\ UNCHANGED ret
    \/ \E h \in Refs : WakeUp(h) /\ UNCHANGED ret
    \/ \E h \in Refs : \E result \in Results :
           ProcessorResolves(h, result) /\ UNCHANGED ret
    \/ \E h \in Refs : \E msg \in Thrown(h) :
           ProcessorRejectsBackoff(h, msg) /\ UNCHANGED ret
    \/ \E h \in Refs : \E msg \in Thrown(h) :
           ProcessorRejectsLast(h, msg) /\ UNCHANGED ret
    \/ \E h \in Refs : UpdateProgress(h) /\ UNCHANGED ret
    \/ \E h \in Refs : UpdateProgressKept(h)

ReadSpec == Init /\ [][ReadNext]_vars

\* C26: a progress value handed out, by getBatchProgress or as the payload
\* of a 'progress' event, keeps the counts it had when it was handed out,
\* whatever the loop of the batch does afterwards.
C26_Snapshot ==
    ret.op \in {"getBatchProgress", "progress"} => HandedOut = ret.val

\* sequence a is a prefix of sequence b
IsPrefix(a, b) == Len(a) <= Len(b) /\ SubSeq(b, 1, Len(a)) = a

\* C27: in every state of every batch object each progress counter is the
\* number of items in that state (total the number of items), results has
\* one entry per completed item and errors one per failed item; and a step
\* only appends to results and errors.
C27_CountersMatchItems ==
    /\ [](\A h \in Refs :
            LET b == heap[h] IN
            /\ b.progress.total = Len(b.items)
            /\ b.progress.pending = Cardinality(ItemsIn(b, PENDING))
            /\ b.progress.processing = Cardinality(ItemsIn(b, PROCESSING))
            /\ b.progress.completed = Cardinality(ItemsIn(b, COMPLETED))
            /\ b.progress.failed = Cardinality(ItemsIn(b, FAILED))
            /\ Len(b.results) = b.progress.completed
            /\ Len(b.errors) = b.progress.failed)
    /\ [][\A h \in Refs :
            /\ IsPrefix(heap[h].results, heap'[h].results)
            /\ IsPrefix(heap[h].errors, heap'[h].errors)]_vars

\* C27 witness: a batch of two items, the first completed with a null
\* result and the second failed, with one entry in results and one in
\* errors.
C27_Witness ==
    \E h \in Refs :
        /\ Len(heap[h].items) = 2
        /\ heap[h].items[1].state = COMPLETED
        /\ heap[h].items[1].result = NULL
        /\ heap[h].items[2].state = FAILED
        /\ Len(heap[h].results) = 1
        /\ Len(heap[h].errors) = 1

\* C28: the state of an item is pending, processing, completed or failed,
\* never cancelled or partial; a step changes it only from pending to
\* processing or from processing to completed or failed; and 'itemStarted'
\* is emitted at most once for an item.  Calls of cancelBatch, accepted or
\* refused, at any point of the loop do not change this.
C28_ItemStates ==
    /\ [](\A h \in Refs :
            /\ \A k \in 1..Len(heap[h].items) :
                   heap[h].items[k].state \in
                       {PENDING, PROCESSING, COMPLETED, FAILED}
            /\ \A i \in 1..Len(EventsOfType(h, "itemStarted")) :
               \A j \in 1..Len(EventsOfType(h, "itemStarted")) :
                   i # j => EventsOfType(h, "itemStarted")[i].itemIndex
                                # EventsOfType(h, "itemStarted")[j].itemIndex)
    /\ [][\A h \in Refs : \A k \in 1..Len(heap[h].items) :
            heap'[h].items[k].state # heap[h].items[k].state
                => \/ /\ heap[h].items[k].state = PENDING
                      /\ heap'[h].items[k].state = PROCESSING
                   \/ /\ heap[h].items[k].state = PROCESSING
                      /\ heap'[h].items[k].state \in {COMPLETED, FAILED}]_vars

\* C28 witness: cancelBatch was accepted twice for a batch, the first time
\* while its first item was in flight; that item has then completed, and
\* the second item is still pending after processBatch has returned.
C28_Witness ==
    \E h \in Refs :
        /\ Len(heap[h].items) = 2
        /\ cancelledEvents[h] = 2
        /\ cancelAt[h] = heap[h].items[1].index
        /\ heap[h].items[1].state = COMPLETED
        /\ heap[h].items[2].state = PENDING
        /\ loop[h].pc = "done"

\* C29: 'cancelled' is emitted at most once for a batch, and only by a
\* cancelBatch call that finds the batch pending or processing.
C29_CancelledOnce ==
    /\ [](\A h \in Refs : cancelledEvents[h] <= 1)
    /\ [][\A h \in Refs :
            cancelledEvents'[h] > cancelledEvents[h]
                => heap[h].state \in {PENDING, PROCESSING}]_vars

\* ----------------------------------------------------------- termination
\* processItem, lines 178-180: the processor rejects with null or
\* undefined (throw null, Promise.reject()).  The catch block stores it in
\* lastError and then reads error.message for the log line, which throws a
\* TypeError inside the catch block; it leaves processItem and, through the
\* await of line 125, processBatch, whose promise is rejected.  Nothing of
\* the batch is written: the item stays processing, the batch processing.
ProcessorRejectsNullish(h) ==
    /\ loop[h].pc = "awaitProcessor"
    /\ loop' = [loop EXCEPT ![h].pc = "threw", ![h].lastError = NULL]
    /\ outstanding' = [outstanding EXCEPT ![h] = @ - 1]
    /\ UNCHANGED <<heap, batchJobs, mapKeys, batchEvents, cancelledEvents,
                   calls, cancelAt>>

\* the steps of the loop of batch object h with what the calls return: the
\* continuations of processBatch and processItem, the processor's promise
\* settling and the backoff timer firing
LoopStep(h) ==
    \/ LoopStartItem(h) /\ ret' = NoCall
    \/ LoopFinalize(h) /\ Returns("processBatch", heap[h].id, "batch")
    \/ EnterWhile(h) /\ ret' = NoCall
    \/ WakeUp(h) /\ ret' = NoCall
    \/ \E result \in Results : ProcessorResolves(h, result) /\ ret' = NoCall
    \/ \E msg \in Thrown(h) : ProcessorRejectsBackoff(h, msg) /\ ret' = NoCall
    \/ \E msg \in Thrown(h) : ProcessorRejectsLast(h, msg) /\ ret' = NoCall
    \/ ProcessorRejectsNullish(h)
           /\ Returns("processBatch", heap[h].id, "throw")
    \/ UpdateProgress(h) /\ ret' = NoCall

\* The operations of CallSpec with a processor that may also reject with
\* null or undefined.  Every processor invocation settles and every timer
\* fires, and the event loop runs every continuation that is ready: the
\* next step of a loop that can take one is eventually taken.
LiveNext ==
    \/ \E n \in 0..MaxSmallLoad : \E batchId \in generateBatchId(SameTick) :
           /\ CreateWith(n, batchId, NoOptions, SameTick, MaxSmallLoad)
           /\ Returns("createBatch", batchId, "batch")
    \/ \E batchId \in BatchIds :
           StartNotFound(batchId) /\ Returns("processBatch", batchId, "throw")
    \/ \E batchId \in BatchIds :
           StartNotPending(batchId) /\ Returns("processBatch", batchId, "throw")
    \/ \E batchId \in BatchIds :
           StartAccepted(batchId) /\ Returns("processBatch", batchId, "promise")
    \/ \E batchId \in BatchIds :
           CancelRefused(batchId) /\ Returns("cancelBatch", batchId, "false")
    \/ \E batchId \in BatchIds :
           /\ CancelAcceptedWithin(batchId, MaxCancels)
           /\ Returns("cancelBatch", batchId, "true")
    \/ \E batchId \in BatchIds :
           DeleteRefused(batchId) /\ Returns("deleteBatch", batchId, "false")
    \/ \E batchId \in BatchIds :
           DeleteAccepted(batchId) /\ Returns("deleteBatch", batchId, "true")
    \/ \E h \in Refs : LoopStep(h)

LiveSpec ==
    /\ Init
    /\ [][LiveNext]_vars
    /\ \A h \in 1..MaxBatches : WF_vars(h \in Refs /\ LoopStep(h))

\* C30: when every processor invocation settles and every backoff ends, a
\* processBatch call that was accepted finishes: its loop returns with the
\* batch in a terminal state, completedAt set and 'completed' the last
\* event emitted; and the processor is invoked at most maxRetries times
\* the number of items.
C30_Terminates ==
    /\ \A h \in 1..MaxBatches :
           (h \in Refs /\ loop[h].pc \notin {"idle", "done"})
               ~> (/\ h \in Refs
                   /\ loop[h].pc = "done"
                   /\ heap[h].state \in Terminal
                   /\ heap[h].completedAt # NULL
                   /\ batchEvents[h][Len(batchEvents[h])].type = "completed")
    /\ [](\A h \in Refs :
            \A k \in 1..Len(heap[h].items) : calls[h][k] <= maxRetries)

====
